---- MODULE Spec2Model ----
(***************************************************************************)
(* Model of googlescholar.py: the three resolvers (get_scholar_data,       *)
(* get_scholar_profiles, get_author_profile_data) and the orchestrator     *)
(* main().                                                                 *)
(*                                                                         *)
(* Python values are represented as follows.                               *)
(*   str        a sequence of one-character strings  ("" is <<>>)          *)
(*   list       a sequence                           ([] is <<>>)          *)
(*   dict       a function whose domain is a set of key names              *)
(*   None / x   (for the result of select_one, find, attrs lookup)         *)
(*              the sequences <<>> and <<x>>                               *)
(* A call that may raise returns [exc |-> BOOLEAN, val |-> value].         *)
(***************************************************************************)
EXTENDS Integers, Sequences, FiniteSets, TLC

VARIABLES papers, pc, i, j, k, response, scholar_results, authors_list,
          authors_details, profiles, detailed_profiles, profile_data,
          combined_profile, final_database, out_file, trace

vars == <<papers, pc, i, j, k, response, scholar_results, authors_list,
          authors_details, profiles, detailed_profiles, profile_data,
          combined_profile, final_database, out_file, trace>>

(* ------------------------------ bounds -------------------------------- *)

MaxPapers == 2

MaxBlocks == 2

(* --------------------------- basic values ----------------------------- *)

None == <<>>

Some(x) == <<x>>

EmptyDict == [x \in {} |-> <<>>]

Put(d, key, v) == [x \in DOMAIN d \cup {key} |-> IF x = key THEN v ELSE d[x]]

Returned(v) == [exc |-> FALSE, val |-> v]

Raised == [exc |-> TRUE, val |-> <<>>]

IsEmptyValue(v) == DOMAIN v = {}

WS == {" "}

ScholarBase == <<"g", ":">>

(* ------------------------- string operations -------------------------- *)

RECURSIVE LStrip(_)
LStrip(s) ==
    IF s # <<>> /\ s[1] \in WS THEN LStrip(Tail(s)) ELSE s

RECURSIVE RStrip(_)
RStrip(s) ==
    IF s # <<>> /\ s[Len(s)] \in WS THEN RStrip(SubSeq(s, 1, Len(s) - 1)) ELSE s

Strip(s) == RStrip(LStrip(s))

RECURSIVE SplitOn(_, _)
SplitOn(s, sep) ==
    IF \E n \in 1..Len(s) : s[n] = sep
    THEN LET n == CHOOSE m \in 1..Len(s) :
                     s[m] = sep /\ \A q \in 1..(m - 1) : s[q] # sep
         IN  <<SubSeq(s, 1, n - 1)>> \o SplitOn(SubSeq(s, n + 1, Len(s)), sep)
    ELSE <<s>>

RECURSIVE SplitWS(_)
SplitWS(s) ==
    LET t == LStrip(s)
    IN  IF t = <<>> THEN <<>>
        ELSE IF \E n \in 1..Len(t) : t[n] \in WS
             THEN LET n == CHOOSE m \in 1..Len(t) :
                               t[m] \in WS /\ \A q \in 1..(m - 1) : t[q] \notin WS
                  IN  <<SubSeq(t, 1, n - 1)>> \o SplitWS(SubSeq(t, n + 1, Len(t)))
             ELSE <<t>>

Truthy(d) == [key \in {x \in DOMAIN d : ~IsEmptyValue(d[x])} |-> d[key]]

(* ----------------------------- responses ------------------------------ *)

FetchRaises == [kind |-> "raise", status |-> 0, body |-> <<>>]

Http(st, b) == [kind |-> "http", status |-> st, body |-> b]

(* ------------------------- get_scholar_data --------------------------- *)

ParseSearchResult(el) ==
    LET r0 == EmptyDict
        r1 == IF el.title_el # None
              THEN LET t == el.title_el[1]
                       a == Put(r0, "title", t.text)
                   IN  IF t.a # None /\ t.a[1].href # None
                       THEN Put(Put(a, "title_link", t.a[1].href[1]), "id",
                                IF t.a[1].id # None THEN t.a[1].id[1] ELSE <<>>)
                       ELSE a
              ELSE r0
        r2 == IF el.gs_a # None THEN Put(r1, "displayed_link", el.gs_a[1]) ELSE r1
        r3 == IF el.gs_rs # None THEN Put(r2, "snippet", Strip(el.gs_rs[1])) ELSE r2
        r4 == IF el.cited_a # None
              THEN Put(Put(r3, "cited_by_count", el.cited_a[1].text), "cited_link",
                       ScholarBase \o (IF el.cited_a[1].href # None
                                       THEN el.cited_a[1].href[1] ELSE <<>>))
              ELSE r3
        r5 == IF el.ver_el # None
              THEN Put(Put(r4, "versions_count", el.ver_el[1].text), "versions_link",
                       ScholarBase \o (IF el.ver_el[1].href # None
                                       THEN el.ver_el[1].href[1] ELSE <<>>))
              ELSE r4
    IN  Returned(Truthy(r5))

get_scholar_data_propagates(resp) ==
    IF resp.kind = "raise" THEN Raised
    ELSE Returned([n \in 1..Len(resp.body) |-> ParseSearchResult(resp.body[n]).val])

get_scholar_data(resp) ==
    IF resp.kind = "raise" THEN Returned(<<>>)
    ELSE LET rs == [n \in 1..Len(resp.body) |-> ParseSearchResult(resp.body[n])]
             ok == SelectSeq(rs, LAMBDA r : ~r.exc)
         IN  Returned([n \in 1..Len(ok) |-> ok[n].val])

(* ----------------------- get_scholar_profiles ------------------------- *)

LastWord(text) ==
    LET w == SplitWS(text)
    IN  IF w = <<>> THEN Raised ELSE Returned(w[Len(w)])

ParseCandidate(el) ==
    LET p0 == EmptyDict
        p1 == IF el.name_el # None
              THEN LET t == el.name_el[1]
                       a == Put(p0, "name", t.text)
                   IN  IF t.a # None /\ t.a[1].href # None
                       THEN Put(a, "name_link", ScholarBase \o t.a[1].href[1])
                       ELSE a
              ELSE p0
        p2 == IF el.aff # None THEN Put(p1, "position", el.aff[1]) ELSE p1
        p3 == IF el.eml # None THEN Put(p2, "email", el.eml[1]) ELSE p2
        p4 == IF el.int # None THEN Put(p3, "departments", el.int[1]) ELSE p3
    IN  IF el.cby # None
        THEN LET c == LastWord(el.cby[1])
             IN  IF c.exc THEN Raised
                 ELSE Returned(Truthy(Put(p4, "cited_by_count", c.val)))
        ELSE Returned(Truthy(p4))

get_scholar_profiles(resp) ==
    IF resp.kind = "raise" THEN Returned(<<>>)
    ELSE LET rs == [n \in 1..Len(resp.body) |-> ParseCandidate(resp.body[n])]
         IN  IF \E n \in 1..Len(rs) : rs[n].exc
             THEN Returned(<<>>)
             ELSE Returned([n \in 1..Len(rs) |-> rs[n].val])

(* ---------------------- get_author_profile_data ----------------------- *)

ParseArticle(el) ==
    LET a0 == EmptyDict
        a1 == IF el.at # None
              THEN LET t    == el.at[1]
                       a    == Put(a0, "title", t.text)
                       link == IF t.href # None THEN t.href[1] ELSE <<>>
                   IN  IF link # <<>> THEN Put(a, "link", ScholarBase \o link) ELSE a
              ELSE a0
        a2 == IF Len(el.gray) >= 1 THEN Put(a1, "authors", el.gray[1]) ELSE a1
        a3 == IF Len(el.gray) > 1 THEN Put(a2, "publication", el.gray[2]) ELSE a2
    IN  Truthy(a3)

MetricRow(cell, key) ==
    IF cell # None THEN Put(EmptyDict, key, [all |-> cell[1]]) ELSE EmptyDict

CitationTable(pg) ==
    <<MetricRow(pg.std1, "citations"), MetricRow(pg.std2, "h_index"),
      MetricRow(pg.std3, "i_index")>>

get_author_profile_data(resp) ==
    IF resp.kind = "raise" THEN Returned(EmptyDict)
    ELSE LET pg == resp.body
             d0 == EmptyDict
             d1 == IF pg.prf_in # None THEN Put(d0, "name", pg.prf_in[1]) ELSE d0
             d2 == IF pg.prf_il # None THEN Put(d1, "position", pg.prf_il[1]) ELSE d1
             d3 == IF pg.prf_ivh # None THEN Put(d2, "email", pg.prf_ivh[1]) ELSE d2
             d4 == IF pg.prf_int # None THEN Put(d3, "departments", pg.prf_int[1]) ELSE d3
             d5 == Put(d4, "articles", [n \in 1..Len(pg.rows) |-> ParseArticle(pg.rows[n])])
         IN  Returned(Put(d5, "citation_metrics", CitationTable(pg)))

(* ------------------------------- main --------------------------------- *)

StrVal(s) == [t |-> "str", v |-> s]

NullVal == [t |-> "null", v |-> <<>>]

Get(d, key, default) == IF key \in DOMAIN d THEN d[key] ELSE default

PyStr(x) == IF x.t = "null" THEN <<"N", "o", "n", "e">> ELSE x.v

Query(paper) == <<"\"">> \o PyStr(Get(paper, "title", StrVal(<<>>))) \o <<"\"">>

AuthorsListDedup(x) ==
    IF x.t # "str" THEN Raised
    ELSE LET parts == SplitOn(x.v, ",")
             st    == [n \in 1..Len(parts) |-> Strip(parts[n])]
             keep  == {n \in 1..Len(st) :
                         st[n] # <<>> /\ \A m \in 1..(n - 1) : st[m] # st[n]}
             idx   == [n \in 1..Len(st) |-> Cardinality({m \in keep : m <= n})]
         IN  Returned([q \in 1..Cardinality(keep) |->
                          st[CHOOSE n \in keep : idx[n] = q]])

AuthorsList(x) ==
    IF x.t # "str" THEN Raised
    ELSE LET parts == SplitOn(x.v, ",")
             st    == [n \in 1..Len(parts) |-> Strip(parts[n])]
         IN  Returned(SelectSeq(st, LAMBDA a : a # <<>>))

HasLink(profile) == "name_link" \in DOMAIN profile

MergeCandidateWins(c, d) == c @@ d

Merge(c, d) == d @@ c

FetchEv(ev, arg, resp, ret) ==
    [ev |-> ev, arg |-> arg, raised |-> resp.kind = "raise", ret |-> ret]

SleepEv(n) == [ev |-> "sleep", secs |-> n]

SaveEv == [ev |-> "save"]

RequestWithRetry(ev, arg, resp, ret) ==
    IF resp.kind = "raise"
    THEN <<FetchEv(ev, arg, resp, ret), FetchEv(ev, arg, resp, ret)>>
    ELSE <<FetchEv(ev, arg, resp, ret)>>

Request(ev, arg, resp, ret) == <<FetchEv(ev, arg, resp, ret)>>

ProfilePacing == <<SleepEv(1)>>

AuthorPacing == <<SleepEv(1)>>

NoPacing == <<>>

PaperPacing == <<SleepEv(2)>>

(* inputs of the orchestrator: paper files and pages of the remote site *)

PaperDup ==
    [title |-> StrVal(<<"X">>),
     authors |-> StrVal(<<"A", ",", "B", " ", ",", ",", " ", "B">>)]

PaperNullAuthors == [title |-> StrVal(<<"Y">>), authors |-> NullVal]

PaperNoAuthors == [title |-> StrVal(<<"Z">>)]

PaperPool == {PaperDup, PaperNullAuthors, PaperNoAuthors}

PaperLists == UNION {[1..n -> PaperPool] : n \in 0..MaxPapers}

FullResult ==
    [title_el |-> Some([text |-> <<"T">>,
                        a |-> Some([href |-> Some(<<"/", "t">>), id |-> Some(<<"r">>)])]),
     gs_a |-> Some(<<"d">>), gs_rs |-> Some(<<" ", "s">>),
     cited_a |-> Some([text |-> <<"c", "5">>, href |-> Some(<<"/", "c">>)]),
     ver_el |-> Some([text |-> <<"v", "2">>, href |-> Some(<<"/", "v">>)])]

LinkedCandidate ==
    [name_el |-> Some([text |-> <<"B">>, a |-> Some([href |-> Some(<<"/", "b">>)])]),
     aff |-> Some(<<"u">>), eml |-> None, int |-> None,
     cby |-> Some(<<"c", " ", "5">>)]

UnlinkedCandidate ==
    [name_el |-> Some([text |-> <<"B">>, a |-> None]),
     aff |-> Some(<<"w">>), eml |-> None, int |-> None, cby |-> None]

LinkedCandidate2 ==
    [name_el |-> Some([text |-> <<"C">>, a |-> Some([href |-> Some(<<"/", "c">>)])]),
     aff |-> None, eml |-> Some(<<"e">>), int |-> None, cby |-> None]

SparsePage ==
    [prf_in |-> None, prf_il |-> Some(<<"q">>), prf_ivh |-> None, prf_int |-> None,
     rows |-> <<>>, std1 |-> None, std2 |-> None, std3 |-> None]

DetailPage ==
    [prf_in |-> Some(<<"B", "2">>), prf_il |-> None, prf_ivh |-> None,
     prf_int |-> Some(<<"m">>),
     rows |-> <<[at |-> Some([text |-> <<"W">>, href |-> Some(<<"/", "w">>)]),
                 gray |-> <<<<"B">>, <<"j">>>>]>>,
     std1 |-> Some(<<"9">>), std2 |-> Some(<<"3">>), std3 |-> None]

SearchResponses == {FetchRaises, Http(200, <<FullResult>>)}

AuthorResponses(name) ==
    IF name = <<"A">>
    THEN {FetchRaises,
          Http(200, <<LinkedCandidate, UnlinkedCandidate, LinkedCandidate2>>)}
    ELSE {FetchRaises, Http(200, <<UnlinkedCandidate>>)}

ProfileResponses(url) ==
    IF url = ScholarBase \o <<"/", "b">>
    THEN {FetchRaises, Http(200, DetailPage)}
    ELSE {Http(200, SparsePage)}

Init ==
    /\ papers \in PaperLists
    /\ pc = "paper"
    /\ i = 1
    /\ j = 1
    /\ k = 1
    /\ response = FetchRaises
    /\ scholar_results = <<>>
    /\ authors_list = <<>>
    /\ authors_details = <<>>
    /\ profiles = <<>>
    /\ detailed_profiles = <<>>
    /\ profile_data = EmptyDict
    /\ combined_profile = EmptyDict
    /\ final_database = <<>>
    /\ out_file = None
    /\ trace = <<>>

Crash ==
    /\ pc' = "crashed"
    /\ UNCHANGED <<papers, i, j, k, scholar_results, authors_list, authors_details,
                   profiles, detailed_profiles, profile_data, combined_profile,
                   final_database, out_file, trace>>

SearchStep ==
    /\ pc = "paper"
    /\ i <= Len(papers)
    /\ \E resp \in SearchResponses :
          LET query == Query(papers[i])
              r     == get_scholar_data(resp)
          IN  /\ response' = resp
              /\ IF r.exc THEN Crash
                 ELSE /\ scholar_results' = r.val
                      /\ trace' = trace \o Request("search", query, resp, r.val)
                      /\ pc' = "split"
                      /\ UNCHANGED <<papers, i, j, k, authors_list, authors_details,
                                     profiles, detailed_profiles, profile_data,
                                     combined_profile, final_database, out_file>>

SplitAuthors ==
    /\ pc = "split"
    /\ LET a == AuthorsList(Get(papers[i], "authors", StrVal(<<>>)))
       IN  /\ ~a.exc
           /\ authors_list' = a.val
    /\ authors_details' = <<>>
    /\ j' = 1
    /\ pc' = "author"
    /\ UNCHANGED <<papers, i, k, response, scholar_results, profiles,
                   detailed_profiles, profile_data, combined_profile,
                   final_database, out_file, trace>>

SplitAuthorsRaises ==
    /\ pc = "split"
    /\ AuthorsList(Get(papers[i], "authors", StrVal(<<>>))).exc
    /\ Crash
    /\ UNCHANGED response

AuthorStep ==
    /\ pc = "author"
    /\ j <= Len(authors_list)
    /\ \E resp \in AuthorResponses(authors_list[j]) :
          LET r == get_scholar_profiles(resp)
          IN  /\ response' = resp
              /\ IF r.exc THEN Crash
                 ELSE /\ profiles' = r.val
                      /\ detailed_profiles' = <<>>
                      /\ k' = 1
                      /\ trace' = trace \o Request("author", authors_list[j], resp, r.val)
                      /\ pc' = "profile"
                      /\ UNCHANGED <<papers, i, j, scholar_results, authors_list,
                                     authors_details, profile_data, combined_profile,
                                     final_database, out_file>>

ProfileStep ==
    /\ pc = "profile"
    /\ k <= Len(profiles)
    /\ HasLink(profiles[k])
    /\ \E resp \in ProfileResponses(profiles[k]["name_link"]) :
          LET profile_url == profiles[k]["name_link"]
              r           == get_author_profile_data(resp)
          IN  /\ response' = resp
              /\ IF r.exc THEN Crash
                 ELSE /\ profile_data' = r.val
                      /\ combined_profile' = Merge(profiles[k], r.val)
                      /\ detailed_profiles' =
                            Append(detailed_profiles, Merge(profiles[k], r.val))
                      /\ trace' = trace \o Request("profile", profile_url, resp, r.val)
                                        \o ProfilePacing
                      /\ k' = k + 1
                      /\ UNCHANGED <<papers, pc, i, j, scholar_results, authors_list,
                                     authors_details, profiles, final_database,
                                     out_file>>

ProfileSkip ==
    /\ pc = "profile"
    /\ k <= Len(profiles)
    /\ ~HasLink(profiles[k])
    /\ k' = k + 1
    /\ UNCHANGED <<papers, pc, i, j, response, scholar_results, authors_list,
                   authors_details, profiles, detailed_profiles, profile_data,
                   combined_profile, final_database, out_file, trace>>

EndAuthor ==
    /\ pc = "profile"
    /\ k > Len(profiles)
    /\ authors_details' =
          Append(authors_details,
                 [author_name |-> authors_list[j], profiles |-> detailed_profiles])
    /\ trace' = trace \o AuthorPacing
    /\ j' = j + 1
    /\ pc' = "author"
    /\ UNCHANGED <<papers, i, k, response, scholar_results, authors_list, profiles,
                   detailed_profiles, profile_data, combined_profile,
                   final_database, out_file>>

EndPaper ==
    /\ pc = "author"
    /\ j > Len(authors_list)
    /\ final_database' =
          Append(final_database,
                 [arxiv |-> papers[i], scholar_search |-> scholar_results,
                  authors_details |-> authors_details])
    /\ trace' = trace \o PaperPacing
    /\ i' = i + 1
    /\ pc' = "paper"
    /\ UNCHANGED <<papers, j, k, response, scholar_results, authors_list,
                   authors_details, profiles, detailed_profiles, profile_data,
                   combined_profile, out_file>>

Save ==
    /\ pc = "paper"
    /\ i > Len(papers)
    /\ out_file' = Some(final_database)
    /\ trace' = Append(trace, SaveEv)
    /\ pc' = "done"
    /\ UNCHANGED <<papers, i, j, k, response, scholar_results, authors_list,
                   authors_details, profiles, detailed_profiles, profile_data,
                   combined_profile, final_database>>

Next ==
    \/ SearchStep
    \/ SplitAuthors
    \/ SplitAuthorsRaises
    \/ AuthorStep
    \/ ProfileStep
    \/ ProfileSkip
    \/ EndAuthor
    \/ EndPaper
    \/ Save

Spec == Init /\ [][Next]_vars

(* ------------- the resolvers applied to one response each -------------- *)

Statuses == {200, 404}

BoundedSeq(S, n) == UNION {[1..m -> S] : m \in 0..n}

TitleEls ==
    {None,
     Some([text |-> <<>>, a |-> None]),
     Some([text |-> <<"T">>, a |-> Some([href |-> None, id |-> Some(<<"r">>)])]),
     Some([text |-> <<"T">>, a |-> Some([href |-> Some(<<"/", "t">>), id |-> None])]),
     Some([text |-> <<"T">>, a |-> Some([href |-> Some(<<"/", "t">>), id |-> Some(<<"r">>)])])}

SearchBlocks ==
    [title_el : TitleEls, gs_a : {None}, gs_rs : {None, Some(<<" ">>)},
     cited_a : {None, Some([text |-> <<"c", "5">>, href |-> None])},
     ver_el : {None}] \cup {FullResult}

NameEls ==
    {None,
     Some([text |-> <<"N">>, a |-> None]),
     Some([text |-> <<"N">>, a |-> Some([href |-> None])]),
     Some([text |-> <<"N">>, a |-> Some([href |-> Some(<<"/", "p">>)])])}

AuthorBlocks ==
    [name_el : NameEls, aff : {None, Some(<<>>)}, eml : {None}, int : {None},
     cby : {None, Some(<<>>), Some(<<"c", " ", "5">>)}] \cup {LinkedCandidate}

ArticleRows ==
    [at : {None, Some([text |-> <<"W">>, href |-> None]),
           Some([text |-> <<"W">>, href |-> Some(<<"/", "w">>)])},
     gray : {<<>>, <<<<"a">>>>, <<<<"a">>, <<"j">>>>}]

ProfilePages ==
    [prf_in : {None, Some(<<>>), Some(<<"D">>)}, prf_il : {None, Some(<<"P">>)},
     prf_ivh : {None}, prf_int : {None}, rows : BoundedSeq(ArticleRows, MaxBlocks),
     std1 : {None, Some(<<"9">>)}, std2 : {None}, std3 : {None, Some(<<>>)}]

ResolverInputs(call) ==
    {FetchRaises} \cup
    {Http(st, b) : st \in Statuses,
                   b \in CASE call = "call_search" -> BoundedSeq(SearchBlocks, MaxBlocks)
                           [] call = "call_author" -> BoundedSeq(AuthorBlocks, MaxBlocks)
                           [] OTHER                -> ProfilePages}

InitResolvers ==
    /\ papers = <<>>
    /\ pc \in {"call_search", "call_author", "call_profile"}
    /\ response \in ResolverInputs(pc)
    /\ i = 1
    /\ j = 1
    /\ k = 1
    /\ scholar_results = <<>>
    /\ authors_list = <<>>
    /\ authors_details = <<>>
    /\ profiles = <<>>
    /\ detailed_profiles = <<>>
    /\ profile_data = EmptyDict
    /\ combined_profile = EmptyDict
    /\ final_database = <<>>
    /\ out_file = None
    /\ trace = <<>>

CallSearch ==
    /\ pc = "call_search"
    /\ scholar_results' = get_scholar_data(response).val
    /\ pc' = "ret_search"
    /\ UNCHANGED <<papers, i, j, k, response, authors_list, authors_details, profiles,
                   detailed_profiles, profile_data, combined_profile, final_database,
                   out_file, trace>>

CallAuthor ==
    /\ pc = "call_author"
    /\ profiles' = get_scholar_profiles(response).val
    /\ pc' = "ret_author"
    /\ UNCHANGED <<papers, i, j, k, response, scholar_results, authors_list,
                   authors_details, detailed_profiles, profile_data, combined_profile,
                   final_database, out_file, trace>>

CallProfile ==
    /\ pc = "call_profile"
    /\ profile_data' = get_author_profile_data(response).val
    /\ pc' = "ret_profile"
    /\ UNCHANGED <<papers, i, j, k, response, scholar_results, authors_list,
                   authors_details, profiles, detailed_profiles, combined_profile,
                   final_database, out_file, trace>>

NextResolvers == CallSearch \/ CallAuthor \/ CallProfile

SpecResolvers == InitResolvers /\ [][NextResolvers]_vars

(* ------------------------ auxiliary operators ------------------------- *)

NoEmptyValues(d) == \A key \in DOMAIN d : ~IsEmptyValue(d[key])

IsFetch(e) == e.ev \in {"search", "author", "profile"}

IsPrefix(a, b) == Len(a) <= Len(b) /\ \A q \in 1..Len(a) : a[q] = b[q]

Args(es) == [q \in 1..Len(es) |-> es[q].arg]

\* first position after m of an event of one of the kinds, Len(es) + 1 if none
NextEv(es, m, kinds) ==
    LET S == {n \in (m + 1)..Len(es) : es[n].ev \in kinds}
    IN  IF S = {} THEN Len(es) + 1 ELSE CHOOSE n \in S : \A q \in S : n <= q

Fetches == SelectSeq(trace, IsFetch)

SearchEvs == SelectSeq(trace, LAMBDA e : e.ev = "search")

AuthorsValue(paper) == Get(paper, "authors", StrVal(<<>>))

\* the tokens of a string, stated by positions: the q-th segment lies between
\* the (q-1)-th and the q-th comma, a trimmed segment runs from its first to
\* its last non-blank character
CommaPos(s) == {n \in 1..Len(s) : s[n] = ","}

CommaAt(s, q) ==
    IF q = 0 THEN 0
    ELSE IF q > Cardinality(CommaPos(s)) THEN Len(s) + 1
    ELSE CHOOSE n \in CommaPos(s) : Cardinality({m \in CommaPos(s) : m <= n}) = q

Trimmed(s, lo, hi) ==
    LET B == {n \in lo..hi : s[n] # " "}
    IN  IF B = {} THEN <<>>
        ELSE SubSeq(s, CHOOSE n \in B : \A m \in B : n <= m,
                       CHOOSE n \in B : \A m \in B : n >= m)

DeclTokens(s) ==
    LET segs == [q \in 1..(Cardinality(CommaPos(s)) + 1) |->
                    Trimmed(s, CommaAt(s, q - 1) + 1, CommaAt(s, q) - 1)]
    IN  SelectSeq(segs, LAMBDA t : Len(t) > 0)

Toks(paper) ==
    IF AuthorsValue(paper).t = "str" THEN DeclTokens(AuthorsValue(paper).v) ELSE <<>>

Links(cands) ==
    LET L == SelectSeq(cands, LAMBDA c : "name_link" \in DOMAIN c)
    IN  [q \in 1..Len(L) |-> L[q]["name_link"]]

RECURSIVE TotalTokens(_)
TotalTokens(ps) ==
    IF ps = <<>> THEN 0 ELSE Len(Toks(Head(ps))) + TotalTokens(Tail(ps))

RECURSIVE TotalLinks(_)
TotalLinks(es) ==
    IF es = <<>> THEN 0 ELSE Len(Links(Head(es).ret)) + TotalLinks(Tail(es))

LastAuthorEv ==
    CHOOSE m \in 1..Len(trace) :
        trace[m].ev = "author" /\ \A q \in (m + 1)..Len(trace) : trace[q].ev # "author"

(* ------------------------------- claims ------------------------------- *)

\* C1: every candidate the Author Resolver returned without a profile link is
\* in the author's 'profiles' list with exactly its extracted fields, so the
\* list is as long as the list of candidates returned for that author.
C1_UnlinkedKept ==
    (pc = "author" /\ j > 1) =>
        /\ Len(authors_details[j - 1].profiles) = Len(profiles)
        /\ \A n \in 1..Len(profiles) :
              ~HasLink(profiles[n]) => authors_details[j - 1].profiles[n] = profiles[n]

\* C2: whatever the paper records contain, the run ends with the dataset
\* written and one output record per input paper.
C2_FullPass ==
    pc \in {"done", "crashed"} =>
        /\ out_file # None
        /\ Len(final_database) = Len(papers)

\* C3: no record returned by a resolver has a key that maps to an empty
\* string, list or mapping.
C3_NoEmptyValues ==
    /\ \A n \in 1..Len(scholar_results) : NoEmptyValues(scholar_results[n])
    /\ \A n \in 1..Len(profiles) : NoEmptyValues(profiles[n])
    /\ NoEmptyValues(profile_data)
    /\ "articles" \in DOMAIN profile_data =>
          \A n \in 1..Len(profile_data["articles"]) :
              NoEmptyValues(profile_data["articles"][n])
    /\ NoEmptyValues(combined_profile)

\* C4: the q-th merged record of the author being processed has the keys of
\* the q-th linked candidate c and of the detail d fetched for it, with d's
\* value on d's keys and c's value elsewhere; it is c when the fetch failed.
C4_MergeLaw ==
    pc = "profile" =>
        LET linked == SelectSeq(SubSeq(profiles, 1, k - 1),
                                LAMBDA c : "name_link" \in DOMAIN c)
            evs    == SelectSeq(SubSeq(trace, LastAuthorEv + 1, Len(trace)),
                                LAMBDA e : e.ev = "profile")
        IN  /\ Len(detailed_profiles) = Len(linked)
            /\ Len(evs) = Len(linked)
            /\ \A q \in 1..Len(linked) :
                  LET c == linked[q]
                      d == evs[q].ret
                      m == detailed_profiles[q]
                  IN  /\ DOMAIN m = DOMAIN c \cup DOMAIN d
                      /\ \A key \in DOMAIN m :
                            m[key] = IF key \in DOMAIN d THEN d[key] ELSE c[key]
                      /\ evs[q].raised => m = c

C4_Witness ==
    /\ pc = "profile"
    /\ k = 2
    /\ detailed_profiles # <<>>
    /\ "name" \in DOMAIN profile_data
    /\ profile_data["name"] # profiles[1]["name"]
    /\ detailed_profiles[1]["name"] = profile_data["name"]

\* C5: the n-th output record wraps the n-th input paper, and its author
\* names are the trimmed non-empty tokens of the paper's 'authors' string
\* split on ',', in order, repeated names kept.
C5_OrderPreserved ==
    /\ Len(final_database) <= Len(papers)
    /\ \A n \in 1..Len(final_database) :
          /\ final_database[n].arxiv = papers[n]
          /\ AuthorsValue(papers[n]).t = "str"
          /\ [q \in 1..Len(final_database[n].authors_details) |->
                 final_database[n].authors_details[q].author_name]
               = DeclTokens(AuthorsValue(papers[n]).v)

C5_Witness ==
    /\ pc = "done"
    /\ Len(final_database) = 2
    /\ papers[1] # papers[2]
    /\ Len(final_database[2].authors_details) = 3
    /\ final_database[2].authors_details[2].author_name
         = final_database[2].authors_details[3].author_name
    /\ final_database[2].authors_details[1].author_name
         # final_database[2].authors_details[2].author_name

\* C6: a fetch that raises makes its resolver return an empty result; the
\* run never stops because of it, the paper's record has an empty
\* 'scholar_search' when it was the search fetch, and every author of the
\* paper and every later paper get their entries.
C6_TransportFailureAbsorbed ==
    /\ \A n \in 1..Len(trace) :
          (IsFetch(trace[n]) /\ trace[n].raised) => IsEmptyValue(trace[n].ret)
    /\ pc = "crashed" => AuthorsValue(papers[i]).t # "str"
    /\ \A n \in 1..Len(final_database) :
          /\ SearchEvs[n].raised => final_database[n].scholar_search = <<>>
          /\ Len(final_database[n].authors_details) = Len(Toks(papers[n]))
    /\ pc = "done" => Len(final_database) = Len(papers)

C6_Witness ==
    /\ pc = "done"
    /\ Len(final_database) = 2
    /\ SearchEvs[1].raised
    /\ final_database[1].scholar_search = <<>>
    /\ Len(final_database[1].authors_details) = 3
    /\ Len(final_database[2].authors_details) = 3
    /\ \E n \in 1..Len(trace) : trace[n].ev = "author" /\ trace[n].raised
    /\ \E n \in 1..Len(trace) : trace[n].ev = "profile" /\ trace[n].raised

\* C7: a response with a non-success status makes get_scholar_data and
\* get_scholar_profiles return an empty sequence and get_author_profile_data
\* an empty record.
C7_NonSuccessIsEmpty ==
    (response.kind = "http" /\ response.status # 200) =>
        /\ pc = "ret_search" => scholar_results = <<>>
        /\ pc = "ret_author" => profiles = <<>>
        /\ pc = "ret_profile" => profile_data = EmptyDict

\* C8: a field whose element has an unexpected shape costs only that field:
\* every block of the page still yields its record, with the fields of its
\* well-formed elements.
C8_PerFieldIsolation ==
    response.kind = "http" =>
        /\ pc = "ret_search" =>
              /\ Len(scholar_results) = Len(response.body)
              /\ \A n \in 1..Len(response.body) :
                    LET t == response.body[n].title_el
                    IN  (t # None /\ t[1].text # <<>>) =>
                            /\ "title" \in DOMAIN scholar_results[n]
                            /\ scholar_results[n]["title"] = t[1].text
        /\ pc = "ret_author" =>
              /\ Len(profiles) = Len(response.body)
              /\ \A n \in 1..Len(response.body) :
                    LET t == response.body[n].name_el
                    IN  (t # None /\ t[1].text # <<>>) =>
                            /\ "name" \in DOMAIN profiles[n]
                            /\ profiles[n]["name"] = t[1].text

\* C9: a delay follows every Profile Resolver call, every author's
\* processing and every paper's processing, whether or not the fetch
\* succeeded; no two fetches of the same resolver occur without a delay
\* between them.
C9_Pacing ==
    /\ \A m \in 1..Len(trace) :
          /\ trace[m].ev = "profile" =>
                m < Len(trace) /\ trace[m + 1] = SleepEv(1)
          /\ trace[m].ev = "author" =>
                LET n == NextEv(trace, m, {"author", "search", "save"})
                IN  n <= Len(trace) =>
                       /\ trace[n - 1].ev = "sleep"
                       /\ Cardinality({q \in (m + 1)..(n - 1) : trace[q].ev = "sleep"})
                            > Cardinality({q \in (m + 1)..(n - 1) : trace[q].ev = "profile"})
          /\ trace[m].ev = "search" =>
                LET n == NextEv(trace, m, {"search", "save"})
                IN  n <= Len(trace) => trace[n - 1] = SleepEv(2)
    /\ \A m \in 1..Len(trace) : \A n \in (m + 1)..Len(trace) :
          (IsFetch(trace[m]) /\ trace[n].ev = trace[m].ev) =>
              \E q \in (m + 1)..(n - 1) : trace[q].ev = "sleep"

C9_Witness ==
    /\ pc = "done"
    /\ Len(SearchEvs) = 2
    /\ \E m \in 1..Len(trace) :
          /\ trace[m].ev = "profile"
          /\ trace[m].raised
          /\ m + 3 <= Len(trace)
          /\ trace[m + 1].ev = "sleep"
          /\ trace[m + 2].ev = "profile"
          /\ trace[m + 3].ev = "sleep"
    /\ \E m \in 1..Len(trace) : trace[m].ev = "author" /\ trace[m].raised

\* C10: the fetches of a run are, paper by paper in input order, one search
\* fetch, then per author token in order one author fetch followed by one
\* profile fetch per returned candidate with a link, in page order; nothing
\* is fetched twice, so a finished run made (papers) + (author tokens) +
\* (candidates with a link) fetches.
C10_FetchOrder ==
    LET F       == Fetches
        Rank(m) == Cardinality({n \in 1..m : F[n].ev = "search"})
    IN  /\ \A m \in 1..Len(F) :
              /\ F[m].ev = "search" =>
                    LET r  == Rank(m)
                        nx == NextEv(F, m, {"search"})
                        au == Args(SelectSeq(SubSeq(F, m + 1, nx - 1),
                                             LAMBDA e : e.ev = "author"))
                    IN  /\ r <= Len(papers)
                        /\ F[m].arg = Query(papers[r])
                        /\ IsPrefix(au, Toks(papers[r]))
                        /\ (nx <= Len(F) \/ pc = "done") => au = Toks(papers[r])
              /\ F[m].ev = "author" =>
                    LET nx == NextEv(F, m, {"search", "author"})
                        pr == Args(SubSeq(F, m + 1, nx - 1))
                    IN  /\ IsPrefix(pr, Links(F[m].ret))
                        /\ (nx <= Len(F) \/ pc = "done") => pr = Links(F[m].ret)
              /\ F[m].ev = "profile" => (m > 1 /\ F[m - 1].ev # "search")
        /\ pc = "done" =>
              /\ Rank(Len(F)) = Len(papers)
              /\ Len(F) = Len(papers) + TotalTokens(papers)
                            + TotalLinks(SelectSeq(F, LAMBDA e : e.ev = "author"))

C10_Witness ==
    /\ pc = "done"
    /\ Len(papers) = 2
    /\ Len(Fetches) >= 10
    /\ \E m \in 1..(Len(Fetches) - 1) :
          Fetches[m].ev = "profile" /\ Fetches[m + 1].ev = "profile"
    /\ \E m \in 1..Len(Fetches) : Fetches[m].raised

====
